---- MODULE Spec2Model ----
(***************************************************************************)
(* Verification model of nbusy-server.                                     *)
(*                                                                         *)
(*   QueueSpec     the per-user delivery queue of src/queue.go: the three  *)
(*                 concurrent maps conns / reqs / mutexes, the slices the  *)
(*                 reqs map holds (with their shared backing arrays), and  *)
(*                 the goroutines SetConn, RemoveConn, AddRequest and      *)
(*                 processQueue run, interleaved at every map operation.   *)
(*   FrameSpec     the same queue driven for two users at once.            *)
(*   ListenerSpec  the connection read loop of src/listener.go: one client *)
(*                 writes frames, the reads of the connection return them  *)
(*                 in fragments of any size.                               *)
(*   ServerSpec    Start and Stop of src/server.go and the error mutex.    *)
(***************************************************************************)
EXTENDS Integers, Sequences, FiniteSets, Bags, TLC

\* ------------------------------------------------------------------ bounds
\* API calls the environment makes on the queue, in total
MaxCalls == 5
\* AddRequest calls among them (each request gets the next id 1, 2, ...)
MaxReqs == 3
\* goroutines and calls in flight when the environment makes another call
MaxLive == 2
\* the same three limits where the environment drives two users at once
FrameCalls == 3
FrameReqs == 2
FrameLive == 2
\* frames a client writes on its connection
MaxFrames == 2
\* Start and Stop calls made on the server, in total
MaxServerCalls == 3

\* ------------------------------------------------------- queue: the values
Users == {"u1", "u2"}
ConnIDs == {"c1", "c2"}
NoConn == "none"
\* the zero value queuedRequest{}
Blank == 0
\* the reqs map holds no slice for the user
NoSlice == [arr |-> 0, len |-> 0]

\* ---------------------------------------------------- listener: the values
Clients == {"x", "y"}
\* the bytes of the wire format, and the zero byte of make([]byte, n)
NL == "\n"
NUL == "NUL"
ping == <<"p", "i", "n", "g">>
closed == <<"c", "l", "o", "s", "e">>
\* handleClient before Accept has started it
NotAccepted == [pc |-> "idle", arrived |-> 0, rd |-> 0, n |-> 0, msg |-> <<>>, total |-> 0]

VARIABLES
    conns,      \* q.conns:   user ID -> conn ID, NoConn when the key is absent
    mutexes,    \* q.mutexes: user ID -> the stored sync.RWMutex value
    reqs,       \* q.reqs:    user ID -> slice header [arr, len], NoSlice when absent
    heap,       \* backing arrays of the slices: array id -> its cap elements
    procs,      \* the goroutines and calls in flight, a bag of Proc records
    exit,       \* "running", or how the process ended: "fatal" (log.Fatal), "panic"
    delivered,  \* history: <<user, conn, request>> of the hand-offs that succeeded
    enqueued,   \* history: <<user, request>> of the AddRequest goroutines that stored
    assoc,      \* history: per user, q the queue when q.conns.Set last ran and
                \*          prev the conn ID RemoveConn deleted before that
    calls,      \* API calls made so far
    nreq,       \* AddRequest calls made so far
    lim,        \* the environment of this run: the users it makes calls for, its
                \* limits on calls, AddRequest calls and calls in flight, and
                \* the clients that connect to the listener
    sent,       \* client -> the frames [h, b] the client writes, in order
    clients,    \* client -> the handleClient goroutine of its connection
    handled,    \* history: client -> the handler goroutines started, in order
    serverErr,  \* s.err: "nil" or "error"
    errMutex,   \* s.errMutex: "unlocked" or "locked"
    debug,      \* s.debug
    scalls,     \* the Start and Stop calls in flight, a bag of [op, pc, err]
    nscalls     \* Start and Stop calls made so far

qvars == <<conns, mutexes, reqs, heap, procs, exit, delivered, enqueued, assoc,
           calls, nreq, lim>>

lvars == <<sent, clients, handled>>

svars == <<serverErr, errMutex, debug, scalls, nscalls>>

vars == <<qvars, lvars, svars>>

\* ------------------------------------------------------ queue: goroutines
\* A goroutine or in-flight call.  kind: "set" (SetConn), "rem" (RemoveConn),
\* "add" (the goroutine of AddRequest), "drain" (processQueue).
\*   c   connID (SetConn's argument; processQueue's connID local)
\*   r   the queuedRequest r of AddRequest
\*   s   a slice header local: the slice AddRequest stores; reqs in processQueue
\*   n0  the length the range clause of processQueue evaluated once
\*   i   the range index
\*   mu  processQueue's local copy of the mutex: "none", "unlocked", "locked"
\*   q0  history: the queue contents processQueue read from the map
\*   out history: the SendRequest calls of this processQueue, [r, ok]
Proc(kind, u, pc, c, r) ==
    [kind |-> kind, u |-> u, pc |-> pc, c |-> c, r |-> r, s |-> NoSlice,
     n0 |-> 0, i |-> 0, mu |-> "none", q0 |-> <<>>, out |-> <<>>]

\* the bag of goroutines with one more goroutine g
Spawn(ps, g) == ps (+) SetToBag({g})

\* the bag of goroutines without goroutine p, which returned
Without(ps, p) == ps (-) SetToBag({p})

\* goroutine p went on to be g
Step(ps, p, g) == Spawn(Without(ps, p), g)

Running == exit = "running"

At(p, kind, pc) == p.kind = kind /\ p.pc = pc

\* the environment may make another API call
MayCall == Running /\ calls < lim.calls /\ BagCardinality(procs) < lim.live

\* the elements a slice header exposes
Contents(h, s) == IF s.arr = 0 THEN <<>> ELSE SubSeq(h[s.arr], 1, s.len)

Cap(h, s) == IF s.arr = 0 THEN 0 ELSE Len(h[s.arr])

\* the queue of user u as the reqs map exposes it
Queue(u) == Contents(heap, reqs[u])

\* the requests whose AddRequest goroutine has stored them for u
EnqueuedFor(u) == {e[2] : e \in {x \in enqueued : x[1] = u}}


\* the state NewQueue returns
NewQueue ==
    /\ conns = [u \in Users |-> NoConn]
    /\ mutexes = [u \in Users |-> "none"]
    /\ reqs = [u \in Users |-> NoSlice]
    /\ heap = <<>>
    /\ procs = EmptyBag
    /\ exit = "running"
    /\ delivered = {}
    /\ enqueued = {}
    /\ assoc = [u \in Users |-> [q |-> <<>>, prev |-> NoConn]]
    /\ calls = 0
    /\ nreq = 0

\* the fields NewServer leaves at their zero values; no Start or Stop call yet
NewServer ==
    /\ serverErr = "nil"
    /\ errMutex = "unlocked"
    /\ debug = FALSE
    /\ scalls = EmptyBag
    /\ nscalls = 0

\* no client has connected, and none will
NoClients ==
    /\ sent = [c \in Clients |-> <<>>]
    /\ clients = [c \in Clients |-> NotAccepted]
    /\ handled = [c \in Clients |-> <<>>]

QueueInit ==
    /\ NewQueue
    /\ NoClients
    /\ NewServer
    /\ lim = [users |-> {"u1"}, clients |-> {}, conns |-> [u \in Users |-> ConnIDs],
              calls |-> MaxCalls, reqs |-> MaxReqs, live |-> MaxLive]

FrameInit ==
    /\ NewQueue
    /\ NoClients
    /\ NewServer
    /\ lim = [users |-> Users, clients |-> {},
              conns |-> [u \in Users |-> {IF u = "u1" THEN "c1" ELSE "c2"}],
              calls |-> FrameCalls, reqs |-> FrameReqs, live |-> FrameLive]

\* ---- SetConn: the GetOk test runs when the call is made; the two Sets and
\* the go statement follow as steps of their own.
SetConn(u, c) ==
    /\ MayCall
    /\ calls' = calls + 1
    /\ procs' = IF conns[u] = NoConn
                THEN Spawn(procs, Proc("set", u, "set_conn", c, 0))
                ELSE procs
    /\ UNCHANGED <<conns, mutexes, reqs, heap, exit, delivered, enqueued, assoc, nreq,
                   lim, lvars, svars>>

\* q.conns.Set(userID, connID)
SetConnSetConn(p) ==
    /\ Running /\ At(p, "set", "set_conn")
    /\ conns' = [conns EXCEPT ![p.u] = p.c]
    /\ assoc' = [assoc EXCEPT ![p.u].q = Queue(p.u)]
    /\ procs' = Step(procs, p, [p EXCEPT !.pc = "set_mutex"])
    /\ UNCHANGED <<mutexes, reqs, heap, exit, delivered, enqueued, calls, nreq, lim,
                   lvars, svars>>

\* q.mutexes.Set(userID, sync.RWMutex{}); go q.processQueue(userID); return
SetConnSetMutex(p) ==
    /\ Running /\ At(p, "set", "set_mutex")
    /\ mutexes' = [mutexes EXCEPT ![p.u] = "unlocked"]
    /\ procs' = Step(procs, p, Proc("drain", p.u, "get_conn", NoConn, 0))
    /\ UNCHANGED <<conns, reqs, heap, exit, delivered, enqueued, assoc, calls, nreq,
                   lim, lvars, svars>>

\* RemoveConn as it would be if it dropped the pending requests with the entry
RemoveConnDroppingQueue(u) ==
    /\ MayCall
    /\ calls' = calls + 1
    /\ conns' = [conns EXCEPT ![u] = NoConn]
    /\ reqs' = [reqs EXCEPT ![u] = NoSlice]
    /\ assoc' = [assoc EXCEPT ![u].prev = IF conns[u] = NoConn THEN @ ELSE conns[u],
                               ![u].q = <<>>]
    /\ procs' = Spawn(procs, Proc("rem", u, "del_mutex", NoConn, 0))
    /\ UNCHANGED <<mutexes, heap, exit, delivered, enqueued, nreq, lim, lvars, svars>>

\* ---- RemoveConn: conns.Delete runs when the call is made, mutexes.Delete after
RemoveConn(u) ==
    /\ MayCall
    /\ calls' = calls + 1
    /\ conns' = [conns EXCEPT ![u] = NoConn]
    /\ assoc' = [assoc EXCEPT ![u].prev = IF conns[u] = NoConn THEN @ ELSE conns[u],
                               ![u].q = <<>>]
    /\ procs' = Spawn(procs, Proc("rem", u, "del_mutex", NoConn, 0))
    /\ UNCHANGED <<mutexes, reqs, heap, exit, delivered, enqueued, nreq, lim, lvars, svars>>

\* q.mutexes.Delete(userID); return
RemoveConnDelMutex(p) ==
    /\ Running /\ At(p, "rem", "del_mutex")
    /\ mutexes' = [mutexes EXCEPT ![p.u] = "none"]
    /\ procs' = Without(procs, p)
    /\ UNCHANGED <<conns, reqs, heap, exit, delivered, enqueued, assoc, calls, nreq,
                   lim, lvars, svars>>

\* Go's append(s, r): in place when len < cap, else into a new array of twice
\* the cap; the result is <<heap, slice header>>
GoAppend(h, s, r) ==
    IF s.len < Cap(h, s)
    THEN <<[h EXCEPT ![s.arr][s.len + 1] = r], [arr |-> s.arr, len |-> s.len + 1]>>
    ELSE LET n == IF Cap(h, s) = 0 THEN 1 ELSE 2 * Cap(h, s)
             a == [k \in 1..n |-> IF k <= s.len THEN h[s.arr][k]
                                  ELSE IF k = s.len + 1 THEN r ELSE Blank]
         IN  <<Append(h, a), [arr |-> Len(h) + 1, len |-> s.len + 1]>>

\* ---- AddRequest builds r, starts its goroutine and returns nil.  The
\* goroutine's first step: rs, ok := q.reqs.GetOk(userID), then the slice to
\* store is built, append(rs, r) when ok and []queuedRequest{r} when not.
AddRequest(u) ==
    /\ MayCall /\ nreq < lim.reqs
    /\ calls' = calls + 1
    /\ nreq' = nreq + 1
    /\ LET res == GoAppend(heap, reqs[u], nreq + 1)
       IN  /\ heap' = res[1]
           /\ procs' = Spawn(procs, [Proc("add", u, "set", NoConn, nreq + 1)
                                         EXCEPT !.s = res[2]])
    /\ UNCHANGED <<conns, mutexes, reqs, exit, delivered, enqueued, assoc, lim, lvars, svars>>

\* q.reqs.Set(userID, ...); go q.processQueue(userID)
AddSet(p) ==
    /\ Running /\ At(p, "add", "set")
    /\ reqs' = [reqs EXCEPT ![p.u] = p.s]
    /\ enqueued' = enqueued \cup {<<p.u, p.r>>}
    /\ procs' = Step(procs, p, Proc("drain", p.u, "get_conn", NoConn, 0))
    /\ UNCHANGED <<conns, mutexes, heap, exit, delivered, assoc, calls, nreq, lim, lvars,
                   svars>>

\* ---- processQueue
\* connID, ok := q.conns.GetOk(userID); if !ok { return }
DrainGetConn(p) ==
    /\ Running /\ At(p, "drain", "get_conn")
    /\ procs' = IF conns[p.u] = NoConn
                THEN Without(procs, p)
                ELSE Step(procs, p, [p EXCEPT !.c = conns[p.u], !.pc = "lock"])
    /\ UNCHANGED <<conns, mutexes, reqs, heap, exit, delivered, enqueued, assoc,
                   calls, nreq, lim, lvars, svars>>

\* sync.RWMutex.Lock on a mutex value: it returns, leaving the value locked,
\* only when the value is unlocked
LockValue(mu) == IF mu = "unlocked" THEN "locked" ELSE "blocked"

\* mutex := q.mutexes.Get(userID).(sync.RWMutex); mutex.Lock()
\* On a missing key Get yields nil and the type assertion panics.  Otherwise
\* the assertion copies the stored value into the local, and Lock acts on
\* that copy: the value in the map is left as it was.
DrainLock(p) ==
    /\ Running /\ At(p, "drain", "lock")
    /\ IF mutexes[p.u] = "none"
       THEN /\ exit' = "panic"
            /\ procs' = Step(procs, p, [p EXCEPT !.pc = "panicked"])
       ELSE /\ LockValue(mutexes[p.u]) = "locked"
            /\ exit' = exit
            /\ procs' = Step(procs, p, [p EXCEPT !.mu = LockValue(mutexes[p.u]),
                                      !.pc = "get_reqs"])
    /\ UNCHANGED <<conns, mutexes, reqs, heap, delivered, enqueued, assoc, calls, nreq,
                   lim, lvars, svars>>

\* ireqs, ok := q.reqs.GetOk(userID); the range clause evaluates reqs once.
\* Without a queue: mutex.Unlock() and return.
DrainGetReqs(p) ==
    /\ Running /\ At(p, "drain", "get_reqs")
    /\ procs' = IF reqs[p.u] = NoSlice
                THEN Without(procs, p)
                ELSE Step(procs, p, [p EXCEPT !.s = reqs[p.u],
                                   !.n0 = reqs[p.u].len,
                                   !.i = 0,
                                   !.q0 = Queue(p.u),
                                   !.pc = "loop"])
    /\ UNCHANGED <<conns, mutexes, reqs, heap, exit, delivered, enqueued, assoc,
                   calls, nreq, lim, lvars, svars>>

\* one range iteration up to the router's answer: req is element i of the
\* array the range clause captured; SendRequest fails or succeeds; on an
\* error log.Fatal ends the process
DrainSend(p) ==
    /\ Running /\ At(p, "drain", "loop")
    /\ p.i < p.n0
    /\ LET req == heap[p.s.arr][p.i + 1]
       IN \E ok \in BOOLEAN :
            IF ok
            THEN /\ exit' = exit
                 /\ delivered' = delivered \cup {<<p.u, p.c, req>>}
                 /\ procs' = Step(procs, p, [p EXCEPT !.pc = "remove",
                                !.out = Append(@, [r |-> req, ok |-> TRUE])])
            ELSE /\ exit' = "fatal"
                 /\ delivered' = delivered
                 /\ procs' = Step(procs, p, [p EXCEPT !.pc = "fatal",
                                !.out = Append(@, [r |-> req, ok |-> FALSE])])
    /\ UNCHANGED <<conns, mutexes, reqs, heap, enqueued, assoc, calls, nreq, lim, lvars,
                   svars>>

\* whether reqs[i+1:] is within bounds (low <= len), i the 0-based range index
SliceInBounds(s, i) == i + 1 <= s.len

\* the array after append(reqs[:i], reqs[i+1:]...) moved the tail down by one
\* in place and the old reqs[len(reqs)-1] was set to queuedRequest{}
\* (n the old len(reqs), i the 0-based index)
RemoveAt(a, n, i) ==
    [k \in 1..Len(a) |-> IF k <= i THEN a[k]
                         ELSE IF k < n THEN a[k + 1]
                         ELSE IF k = n THEN Blank
                         ELSE a[k]]

\* reqs, reqs[len(reqs)-1] = append(reqs[:i], reqs[i+1:]...), queuedRequest{}
\* and the range clause's i++
DrainRemove(p) ==
    /\ Running /\ At(p, "drain", "remove")
    /\ IF SliceInBounds(p.s, p.i)
       THEN /\ heap' = [heap EXCEPT ![p.s.arr] =
                            RemoveAt(@, p.s.len, p.i)]
            /\ procs' = Step(procs, p, [p EXCEPT !.s.len = @ - 1, !.i = @ + 1,
                                      !.pc = "loop"])
            /\ exit' = exit
       ELSE /\ exit' = "panic"
            /\ procs' = Step(procs, p, [p EXCEPT !.pc = "panicked"])
            /\ heap' = heap
    /\ UNCHANGED <<conns, mutexes, reqs, delivered, enqueued, assoc, calls, nreq, lim,
                   lvars, svars>>

\* the range is over: q.reqs.Set(userID, reqs); mutex.Unlock(); return
DrainSet(p) ==
    /\ Running /\ At(p, "drain", "loop")
    /\ p.i >= p.n0
    /\ reqs' = [reqs EXCEPT ![p.u] = p.s]
    /\ procs' = Without(procs, p)
    /\ UNCHANGED <<conns, mutexes, heap, exit, delivered, enqueued, assoc, calls, nreq,
                   lim, lvars, svars>>

QueueNext ==
    \/ \E u \in lim.users : \E c \in lim.conns[u] : SetConn(u, c)
    \/ \E u \in lim.users : RemoveConn(u)
    \/ \E u \in lim.users : AddRequest(u)
    \/ \E p \in BagToSet(procs) : SetConnSetConn(p)
    \/ \E p \in BagToSet(procs) : SetConnSetMutex(p)
    \/ \E p \in BagToSet(procs) : RemoveConnDelMutex(p)
    \/ \E p \in BagToSet(procs) : AddSet(p)
    \/ \E p \in BagToSet(procs) : DrainGetConn(p)
    \/ \E p \in BagToSet(procs) : DrainLock(p)
    \/ \E p \in BagToSet(procs) : DrainGetReqs(p)
    \/ \E p \in BagToSet(procs) : DrainSend(p)
    \/ \E p \in BagToSet(procs) : DrainRemove(p)
    \/ \E p \in BagToSet(procs) : DrainSet(p)

QueueSpec == QueueInit /\ [][QueueNext]_vars

FrameSpec == FrameInit /\ [][QueueNext]_vars

\* ------------------------------------------------- listener: the byte stream
\* the bytes of a frame as the client writes them: header line, then payload
FrameBytes(f) == f.h \o <<NL>> \o f.b

RECURSIVE Flatten(_)
Flatten(fs) == IF fs = <<>> THEN <<>> ELSE FrameBytes(Head(fs)) \o Flatten(Tail(fs))

\* everything client c writes on its connection
Stream(c) == Flatten(sent[c])

\* bytes the bufio.Reader holds: read from the connection, not yet handed out
Buffered(c) == SubSeq(Stream(c), clients[c].rd + 1, clients[c].arrived)

\* bytes the client has written that no conn.Read has returned yet
Pending(c) == Len(Stream(c)) - clients[c].arrived

Min(a, b) == IF a <= b THEN a ELSE b

Digits == <<"0", "1", "2", "3", "4", "5", "6", "7", "8", "9">>

DigitOf(ch) == (CHOOSE k \in DOMAIN Digits : Digits[k] = ch) - 1

RECURSIVE Decimal(_)
Decimal(ds) ==
    IF ds = <<>> THEN 0
    ELSE 10 * Decimal(SubSeq(ds, 1, Len(ds) - 1)) + DigitOf(ds[Len(ds)])

\* strconv.Atoi: an optional sign, then one or more decimal digits
Atoi(s) ==
    LET signed == s # <<>> /\ s[1] \in {"+", "-"}
        ds == IF signed THEN Tail(s) ELSE s
    IN  IF ds = <<>> \/ \E k \in DOMAIN ds : ds[k] \notin {Digits[d] : d \in DOMAIN Digits}
        THEN [err |-> TRUE, n |-> 0]
        ELSE [err |-> FALSE, n |-> IF s[1] = "-" THEN 0 - Decimal(ds) ELSE Decimal(ds)]

\* the frames a client of this model may write: two messages, the two control
\* frames, four headers Atoi or the length test rejects, and a frame cut short
Frames ==
    { [h |-> <<"2">>, b |-> <<"a", "b">>],
      [h |-> <<"3">>, b |-> <<"c", "d", "e">>],
      [h |-> <<"4">>, b |-> ping],
      [h |-> <<"5">>, b |-> closed],
      [h |-> <<>>, b |-> <<>>],
      [h |-> <<"x">>, b |-> <<>>],
      [h |-> <<"0">>, b |-> <<>>],
      [h |-> <<"-", "2">>, b |-> <<"a", "b">>],
      [h |-> <<"3">>, b |-> <<"a", "b">>] }

RECURSIVE SeqsUpTo(_, _)
SeqsUpTo(S, n) ==
    IF n = 0 THEN {<<>>}
    ELSE LET shorter == SeqsUpTo(S, n - 1)
         IN  shorter \cup {Append(s, x) : s \in shorter, x \in S}

\* one client connects and writes one to MaxFrames frames; the queue is idle
ListenerInit ==
    /\ NewQueue
    /\ NewServer
    /\ lim = [users |-> {}, clients |-> {"x"}, conns |-> [u \in Users |-> {}],
              calls |-> 0, reqs |-> 0, live |-> 0]
    /\ sent \in {s \in [Clients -> SeqsUpTo(Frames, MaxFrames)] :
                    \A c \in Clients : s[c] # <<>> <=> c \in lim.clients}
    /\ clients = [c \in Clients |-> NotAccepted]
    /\ handled = [c \in Clients |-> <<>>]

\* ------------------------------------------------ listener: handleClient
\* Accept returns the connection of c and starts handleClient for it
Accept(c) ==
    /\ Running
    /\ c \in lim.clients
    /\ clients[c].pc = "idle"
    /\ clients' = [clients EXCEPT ![c].pc = "header"]
    /\ UNCHANGED <<qvars, sent, handled, svars>>

\* reader.ReadSlice('\n') finds no delimiter in its buffer and reads the
\* connection once more: the read returns the next k bytes
ReadSliceFill(c) ==
    /\ Running
    /\ clients[c].pc = "header"
    /\ NL \notin {Buffered(c)[k] : k \in DOMAIN Buffered(c)}
    /\ \E k \in 1..Pending(c) :
          clients' = [clients EXCEPT ![c].arrived = @ + k]
    /\ UNCHANGED <<qvars, sent, handled, svars>>

\* ... and the read fails (end of stream, or the read deadline): log.Fatalln
ReadSliceError(c) ==
    /\ Running
    /\ clients[c].pc = "header"
    /\ NL \notin {Buffered(c)[k] : k \in DOMAIN Buffered(c)}
    /\ Pending(c) = 0
    /\ clients' = [clients EXCEPT ![c].pc = "fatal"]
    /\ exit' = "fatal"
    /\ UNCHANGED <<conns, mutexes, reqs, heap, procs, delivered, enqueued, assoc,
                   calls, nreq, lim, sent, handled, svars>>

\* ReadSlice returns the header line; strconv.Atoi; make([]byte, n)
ReadHeader(c) ==
    /\ Running
    /\ clients[c].pc = "header"
    /\ \E e \in DOMAIN Buffered(c) :
          /\ Buffered(c)[e] = NL
          /\ \A k \in 1..(e - 1) : Buffered(c)[k] # NL
          /\ LET a == Atoi(SubSeq(Buffered(c), 1, e - 1))
             IN  IF a.err \/ a.n = 0
                   THEN /\ clients' = [clients EXCEPT ![c].pc = "fatal", ![c].rd = @ + e]
                        /\ exit' = "fatal"
                 ELSE IF a.n < 0
                   THEN /\ clients' = [clients EXCEPT ![c].pc = "panicked", ![c].rd = @ + e]
                        /\ exit' = "panic"
                 ELSE   /\ clients' = [clients EXCEPT ![c].pc = "body", ![c].rd = @ + e,
                                          ![c].n = a.n, ![c].total = 0,
                                          ![c].msg = [k \in 1..a.n |-> NUL]]
                        /\ exit' = exit
    /\ UNCHANGED <<conns, mutexes, reqs, heap, procs, delivered, enqueued, assoc,
                   calls, nreq, lim, sent, handled, svars>>

\* copy(msg, data): the first bytes of msg are overwritten
CopyInto(msg, data) ==
    [k \in DOMAIN msg |-> IF k <= Len(data) THEN data[k] ELSE msg[k]]

\* reader.Read(msg) with bytes in the buffer: copies them to the start of msg
ReadBuffered(c) ==
    /\ Running
    /\ clients[c].pc = "body"
    /\ clients[c].total < clients[c].n
    /\ Buffered(c) # <<>>
    /\ LET i == Min(clients[c].n, Len(Buffered(c)))
       IN  clients' = [clients EXCEPT
                         ![c].msg = CopyInto(@, SubSeq(Buffered(c), 1, i)),
                         ![c].rd = @ + i,
                         ![c].total = @ + i]
    /\ UNCHANGED <<qvars, sent, handled, svars>>

\* reader.Read(msg) with an empty buffer: reads the connection once (k bytes
\* arrive), then copies from the buffer to the start of msg
ReadFill(c) ==
    /\ Running
    /\ clients[c].pc = "body"
    /\ clients[c].total < clients[c].n
    /\ Buffered(c) = <<>>
    /\ \E k \in 1..Pending(c) :
          LET i == Min(clients[c].n, k)
              data == SubSeq(Stream(c), clients[c].rd + 1, clients[c].rd + i)
          IN  clients' = [clients EXCEPT
                            ![c].arrived = @ + k,
                            ![c].msg = CopyInto(@, data),
                            ![c].rd = @ + i,
                            ![c].total = @ + i]
    /\ UNCHANGED <<qvars, sent, handled, svars>>

\* ... and the read fails: log.Fatalln
ReadError(c) ==
    /\ Running
    /\ clients[c].pc = "body"
    /\ clients[c].total < clients[c].n
    /\ Buffered(c) = <<>>
    /\ Pending(c) = 0
    /\ clients' = [clients EXCEPT ![c].pc = "fatal"]
    /\ exit' = "fatal"
    /\ UNCHANGED <<conns, mutexes, reqs, heap, procs, delivered, enqueued, assoc,
                   calls, nreq, lim, sent, handled, svars>>

\* total >= n: ping is skipped, close starts handleDisconn and returns (the
\* deferred conn.Close runs), anything else starts handleMsg
Dispatch(c) ==
    /\ Running
    /\ clients[c].pc = "body"
    /\ clients[c].total >= clients[c].n
    /\ IF clients[c].n = 4 /\ clients[c].msg = ping
         THEN /\ clients' = [clients EXCEPT ![c].pc = "header"]
              /\ handled' = handled
       ELSE IF clients[c].n = 5 /\ clients[c].msg = closed
         THEN /\ clients' = [clients EXCEPT ![c].pc = "closed"]
              /\ handled' = [handled EXCEPT ![c] = Append(@, [kind |-> "disconn", msg |-> <<>>])]
       ELSE   /\ clients' = [clients EXCEPT ![c].pc = "header"]
              /\ handled' = [handled EXCEPT
                                ![c] = Append(@, [kind |-> "msg", msg |-> clients[c].msg])]
    /\ UNCHANGED <<qvars, sent, svars>>

ListenerNext ==
    \/ \E c \in Clients : Accept(c)
    \/ \E c \in Clients : ReadSliceFill(c)
    \/ \E c \in Clients : ReadSliceError(c)
    \/ \E c \in Clients : ReadHeader(c)
    \/ \E c \in Clients : ReadBuffered(c)
    \/ \E c \in Clients : ReadFill(c)
    \/ \E c \in Clients : ReadError(c)
    \/ \E c \in Clients : Dispatch(c)

ListenerSpec == ListenerInit /\ [][ListenerNext]_vars

\* ------------------------------------------------- server: Start and Stop
\* a Start or Stop call in flight; err is its local err
Call(op, pc, e) == [op |-> op, pc |-> pc, err |-> e]

\* what s.server.Start() and s.server.Close() may return
Errors == {"nil", "error"}

\* another Start or Stop call may be made
MayCallServer == Running /\ nscalls < MaxServerCalls

\* Start is called: it blocks in s.server.Start()
StartCall ==
    /\ MayCallServer
    /\ nscalls' = nscalls + 1
    /\ scalls' = Spawn(scalls, Call("start", "serve", "nil"))
    /\ UNCHANGED <<qvars, lvars, serverErr, errMutex, debug>>

\* err := s.server.Start() returns; with an error in debug mode log.Fatalln
StartServed(p) ==
    /\ Running /\ p.op = "start" /\ p.pc = "serve"
    /\ \E e \in Errors :
          IF e # "nil" /\ debug
          THEN /\ exit' = "fatal"
               /\ scalls' = Step(scalls, p, Call("start", "fatal", e))
          ELSE /\ exit' = exit
               /\ scalls' = Step(scalls, p, Call("start", "lock", e))
    /\ UNCHANGED <<conns, mutexes, reqs, heap, procs, delivered, enqueued, assoc,
                   calls, nreq, lim, lvars, serverErr, errMutex, debug, nscalls>>

\* s.errMutex.Lock() in Start
StartLock(p) ==
    /\ Running /\ p.op = "start" /\ p.pc = "lock"
    /\ errMutex = "unlocked"
    /\ errMutex' = "locked"
    /\ scalls' = Step(scalls, p, [p EXCEPT !.pc = "store"])
    /\ UNCHANGED <<qvars, lvars, serverErr, debug, nscalls>>

\* s.err = err
StartStore(p) ==
    /\ Running /\ p.op = "start" /\ p.pc = "store"
    /\ serverErr' = p.err
    /\ scalls' = Step(scalls, p, [p EXCEPT !.pc = "unlock"])
    /\ UNCHANGED <<qvars, lvars, errMutex, debug, nscalls>>

\* s.errMutex.Unlock(); return err
StartUnlock(p) ==
    /\ Running /\ p.op = "start" /\ p.pc = "unlock"
    /\ errMutex' = "unlocked"
    /\ scalls' = Without(scalls, p)
    /\ UNCHANGED <<qvars, lvars, serverErr, debug, nscalls>>

\* Stop is called
StopCall ==
    /\ MayCallServer
    /\ nscalls' = nscalls + 1
    /\ scalls' = Spawn(scalls, Call("stop", "close", "nil"))
    /\ UNCHANGED <<qvars, lvars, serverErr, errMutex, debug>>

\* err := s.server.Close()
StopClose(p) ==
    /\ Running /\ p.op = "stop" /\ p.pc = "close"
    /\ \E e \in Errors : scalls' = Step(scalls, p, Call("stop", "lock", e))
    /\ UNCHANGED <<qvars, lvars, serverErr, errMutex, debug, nscalls>>

\* s.errMutex.Lock() in Stop
StopLock(p) ==
    /\ Running /\ p.op = "stop" /\ p.pc = "lock"
    /\ errMutex = "unlocked"
    /\ errMutex' = "locked"
    /\ scalls' = Step(scalls, p, [p EXCEPT !.pc = "test"])
    /\ UNCHANGED <<qvars, lvars, serverErr, debug, nscalls>>

\* if s.err != nil { return fmt.Errorf(...) }: Stop returns there and then
StopTest(p) ==
    /\ Running /\ p.op = "stop" /\ p.pc = "test"
    /\ scalls' = IF serverErr # "nil"
                 THEN Without(scalls, p)
                 ELSE Step(scalls, p, [p EXCEPT !.pc = "unlock"])
    /\ UNCHANGED <<qvars, lvars, serverErr, errMutex, debug, nscalls>>

\* s.errMutex.Unlock(); return err
StopUnlock(p) ==
    /\ Running /\ p.op = "stop" /\ p.pc = "unlock"
    /\ errMutex' = "unlocked"
    /\ scalls' = Without(scalls, p)
    /\ UNCHANGED <<qvars, lvars, serverErr, debug, nscalls>>

\* a new server; nothing is queued and no client connects
ServerInit ==
    /\ NewServer
    /\ NewQueue
    /\ NoClients
    /\ lim = [users |-> {}, clients |-> {}, conns |-> [u \in Users |-> {}],
              calls |-> 0, reqs |-> 0, live |-> 0]

ServerNext ==
    \/ StartCall
    \/ StopCall
    \/ \E p \in BagToSet(scalls) : StartServed(p)
    \/ \E p \in BagToSet(scalls) : StartLock(p)
    \/ \E p \in BagToSet(scalls) : StartStore(p)
    \/ \E p \in BagToSet(scalls) : StartUnlock(p)
    \/ \E p \in BagToSet(scalls) : StopClose(p)
    \/ \E p \in BagToSet(scalls) : StopLock(p)
    \/ \E p \in BagToSet(scalls) : StopTest(p)
    \/ \E p \in BagToSet(scalls) : StopUnlock(p)

ServerSpec == ServerInit /\ [][ServerNext]_vars

\* ------------------------------------------------------- queue: the claims
Range(s) == {s[k] : k \in DOMAIN s}

ReqsOf(out) == [k \in DOMAIN out |-> out[k].r]

IsPrefix(s, t) == Len(s) <= Len(t) /\ \A k \in DOMAIN s : s[k] = t[k]

DrainsOf(u) == {p \in BagToSet(procs) : p.kind = "drain" /\ p.u = u}

\* processQueue between mutex.Lock() and mutex.Unlock()
InCriticalSection(p) == p.kind = "drain" /\ p.pc \in {"get_reqs", "loop", "remove"}

\* how many processQueue goroutines of u are in their critical section
InCriticalSectionCount(u) ==
    LET cs == {p \in DOMAIN procs : InCriticalSection(p) /\ p.u = u}
    IN  BagCardinality([p \in cs |-> procs[p]])

\* a SendRequest of processQueue p returned an error
HandOffFailed(p) == p.kind = "drain" /\ p.out # <<>> /\ ~p.out[Len(p.out)].ok

\* the <<conn, request>> pairs handed off successfully for u
DeliveredFor(u) == {<<d[2], d[3]>> : d \in {x \in delivered : x[1] = u}}

\* no goroutine or call is in flight
Quiescent == procs = EmptyBag

\* C1: for every user at most one processQueue is between Lock and Unlock
\* at any instant.
C1_OneDrainAtATime == \A u \in Users : InCriticalSectionCount(u) <= 1

\* C2: the only calls were three AddRequest and then one SetConn for u, the
\* requests 1, 2, 3 were stored in that order before the association, no
\* hand-off fails, and nothing but the processQueue of the association is in
\* flight: it hands off a prefix of 1, 2, 3 (in order, each once), the
\* process keeps running, and once it has returned the router got exactly
\* 1, 2, 3 on u's connection and the queue is empty.
C2_FifoDelivery ==
    \A u \in Users :
        ( /\ calls = 4 /\ nreq = 3
          /\ assoc[u].q = <<1, 2, 3>>
          /\ exit # "fatal"
          /\ BagCardinality(procs) <= 1 ) =>
            /\ \A p \in DrainsOf(u) : IsPrefix(ReqsOf(p.out), <<1, 2, 3>>)
            /\ exit = "running"
            /\ Quiescent =>
                  /\ Queue(u) = <<>>
                  /\ DeliveredFor(u) = {<<conns[u], r>> : r \in {1, 2, 3}}

\* C3: no step takes a request out of a user's queue unless the hand-off of
\* that very request has succeeded.
C3_RemovedOnlyWhenHandedOff ==
    [][\A u \in Users : \A r \in Range(Queue(u)) \ {Blank} :
          r \notin Range(Queue(u)') => \E c \in ConnIDs : <<u, c, r>> \in delivered']_vars

\* C4: a processQueue runs alone over the queue [A, B, C], its first
\* hand-off succeeds and a later one fails: the failing entry is the first
\* one not handed off yet (B), the entries after it were not handed off, the
\* queue left behind is the failing entry and the ones after it, in order,
\* and the process runs on so that a later processQueue can hand them off.
C4_DrainStopsAtFailure ==
    \A p \in BagToSet(procs) :
        ( /\ HandOffFailed(p)
          /\ Len(p.q0) = 3 /\ Len(p.out) >= 2
          /\ BagCardinality(procs) = 1 ) =>
            /\ Len(p.out) <= 3
            /\ ReqsOf(p.out) = SubSeq(p.q0, 1, Len(p.out))
            /\ Queue(p.u) = SubSeq(p.q0, Len(p.out), 3)
            /\ exit = "running"

\* C5: a failed hand-off never ends the process.
C5_FailureKeepsProcessRunning ==
    (\E p \in BagToSet(procs) : HandOffFailed(p)) => exit = "running"

\* C6: once a directory entry for u is written, the only change to it is its
\* removal: no SetConn replaces the connection ID of an existing entry.
C6_FirstWriterWins ==
    [][\A u \in Users :
          (conns[u] # NoConn /\ conns'[u] # conns[u]) => conns'[u] = NoConn]_vars

\* the step is the call RemoveConn(u)
IsRemoveConnCall(u) == procs' = Spawn(procs, Proc("rem", u, "del_mutex", NoConn, 0))

\* the step is the q.mutexes.Delete(u) that ends a RemoveConn(u)
IsRemoveConnReturn(u) ==
    \E p \in BagToSet(procs) :
        /\ p.kind = "rem" /\ p.u = u
        /\ procs' = Without(procs, p)

\* C7: RemoveConn(u) removes the directory entry of u, and neither of its two
\* steps changes any user's queue (the same requests in the same order) or
\* any other user's directory entry.
C7_RemoveConnFrame ==
    [][\A u \in Users :
          /\ IsRemoveConnCall(u) =>
                /\ conns'[u] = NoConn
                /\ \A v \in Users \ {u} : conns'[v] = conns[v]
                /\ \A v \in Users : Queue(v)' = Queue(v) /\ reqs'[v] = reqs[v]
          /\ IsRemoveConnReturn(u) =>
                /\ conns' = conns
                /\ \A v \in Users : Queue(v)' = Queue(v) /\ reqs'[v] = reqs[v]]_vars

\* C7 witness: RemoveConn(u) has just removed the entry of a user whose queue
\* holds a request, and is about to delete the mutex.
C7_Witness ==
    \E u \in Users :
        /\ \E p \in BagToSet(procs) : p.kind = "rem" /\ p.u = u
        /\ conns[u] = NoConn /\ assoc[u].prev # NoConn
        /\ Queue(u) # <<>> /\ Blank \notin Range(Queue(u))

\* C8: the calls were SetConn, RemoveConn, two AddRequest and a SetConn with
\* another connection ID, all for u, and no hand-off failed: once nothing is
\* in flight any more, or the process has ended in the one goroutine left, a
\* processQueue that had read the queue of the second association, every
\* request that was queued at the second association has been handed off for
\* the new connection ID.
C8_ResumesAfterReassociation ==
    \A u \in Users :
        ( /\ calls = 5 /\ nreq = 2
          /\ assoc[u].prev # NoConn
          /\ conns[u] \notin {NoConn, assoc[u].prev}
          /\ exit # "fatal"
          /\ \/ Quiescent
             \/ /\ exit = "panic" /\ BagCardinality(procs) = 1
                /\ \E p \in DrainsOf(u) : p.q0 = assoc[u].q /\ p.q0 # <<>> ) =>
            \A r \in Range(assoc[u].q) \ {Blank} : <<u, conns[u], r>> \in delivered

\* C9: every request an AddRequest goroutine has stored is in the user's
\* queue or has been handed off: none is lost.
C9_NoRequestLost ==
    \A e \in enqueued :
        \/ e[2] \in Range(Queue(e[1]))
        \/ \E c \in ConnIDs : <<e[1], c, e[2]>> \in delivered

\* ---------------------------------------------------- listener: the claims
\* a frame <n>\n<n bytes> with n > 0 that is neither ping nor close
IsMessageFrame(f) ==
    /\ Atoi(f.h) = [err |-> FALSE, n |-> Len(f.b)]
    /\ f.b # <<>>
    /\ f.b \notin {ping, closed}

\* the handleMsg calls that decoding the frames fs one by one gives
MessagesOf(fs) == [k \in DOMAIN fs |-> [kind |-> "msg", msg |-> fs[k].b]]

\* C10: when a client writes valid message frames only, then however their
\* bytes are split across the reads of the connection, the messages
\* handleClient dispatches are the payloads of the frames, one per frame and
\* in order, and each time the loop is about to read a header it has consumed
\* exactly the bytes of the frames it dispatched.
C10_FramesDecodedIntact ==
    \A c \in Clients :
        (\A k \in DOMAIN sent[c] : IsMessageFrame(sent[c][k])) =>
            /\ IsPrefix(handled[c], MessagesOf(sent[c]))
            /\ clients[c].pc = "header" =>
                   clients[c].rd = Len(Flatten(SubSeq(sent[c], 1, Len(handled[c]))))

\* a header line that strconv.Atoi rejects or that gives the length 0
IsRejectedHeader(h) == Atoi(h).err \/ Atoi(h).n = 0

\* a valid frame: a message frame, ping or close
IsValidFrame(f) == Atoi(f.h) = [err |-> FALSE, n |-> Len(f.b)] /\ f.b # <<>>

\* the connection of c is no longer served: handleClient returned, or the
\* process ended
ConnEnded(c) == clients[c].pc = "closed" \/ ~Running

\* the bytes of the stream of c up to the end of the header line of frame k
HeaderEnd(c, k) == Len(Flatten(SubSeq(sent[c], 1, k - 1))) + Len(sent[c][k].h) + 1

\* C11: a frame whose header line is empty, non-numeric or zero, written after
\* valid frames that keep the connection open, is rejected: no handler is
\* started for it, nothing after its header line is read, and once its header
\* line has been read the connection is ended.
C11_BadHeaderRejected ==
    \A c \in Clients : \A k \in DOMAIN sent[c] :
        (/\ IsRejectedHeader(sent[c][k].h)
         /\ \A j \in 1..(k - 1) : IsValidFrame(sent[c][j]) /\ sent[c][j].b # closed) =>
            /\ Len(handled[c]) <= k - 1
            /\ clients[c].rd <= HeaderEnd(c, k)
            /\ clients[c].rd = HeaderEnd(c, k) => ConnEnded(c)

\* the handler goroutines that decoding the valid frames fs one by one starts:
\* none for ping, handleDisconn for close, handleMsg for any other payload
RECURSIVE HandlersOf(_)
HandlersOf(fs) ==
    IF fs = <<>> THEN <<>>
    ELSE (IF Head(fs).b = ping THEN <<>>
          ELSE IF Head(fs).b = closed THEN <<[kind |-> "disconn", msg |-> <<>>]>>
          ELSE <<[kind |-> "msg", msg |-> Head(fs).b]>>) \o HandlersOf(Tail(fs))

\* the bytes of the stream of c up to the end of frame k
FrameEnd(c, k) == Len(Flatten(SubSeq(sent[c], 1, k)))

\* frame k of c is valid and so is every frame before it, none of them close
ReachesFrame(c, k) ==
    /\ k \in DOMAIN sent[c]
    /\ IsValidFrame(sent[c][k])
    /\ \A j \in 1..(k - 1) : IsValidFrame(sent[c][j]) /\ sent[c][j].b # closed

\* C12: when the frame with payload "close" is decoded, handleDisconn is
\* started exactly once and handleMsg not at all for it, nothing after the
\* frame is read, and the connection is closed.
C12_CloseFrameDisconnects ==
    \A c \in Clients : \A k \in DOMAIN sent[c] :
        (ReachesFrame(c, k) /\ sent[c][k].b = closed) =>
            /\ IsPrefix(handled[c], HandlersOf(SubSeq(sent[c], 1, k)))
            /\ clients[c].rd <= FrameEnd(c, k)
            /\ (clients[c].rd = FrameEnd(c, k) /\ clients[c].pc # "body") =>
                  /\ clients[c].pc = "closed"
                  /\ handled[c] = HandlersOf(SubSeq(sent[c], 1, k))

\* how many handleDisconn goroutines handleClient has started for c
Disconnects(c) ==
    Cardinality({k \in DOMAIN handled[c] : handled[c][k].kind = "disconn"})

\* handleClient of c took one of its error paths: a read of the header or of
\* the payload failed (end of stream, read deadline), or the header was bad
EndedByError(c) == clients[c].pc = "fatal"

\* C13: when the connection of a client ends because of a decode error, a read
\* error or the read deadline, handleDisconn has been started exactly once for
\* that connection.
C13_ErrorRunsDisconnect ==
    \A c \in Clients : EndedByError(c) => Disconnects(c) = 1

\* C14: a read error, the read deadline or a malformed header on the connection
\* of one client does not end the process: the accept loop and the handleClient
\* goroutines of the other connections go on running.
C14_ClientErrorKeepsProcessRunning ==
    (\E c \in Clients : EndedByError(c)) => Running

\* C15: when the frame with payload "ping" is decoded, the payload the loop
\* tests is ping, so no handler is started for the frame (a handler beyond
\* those of the earlier frames is started only after a later frame was read),
\* and handleClient does not return: it goes back to read the next header.
C15_PingFrameSkipped ==
    \A c \in Clients : \A k \in DOMAIN sent[c] :
        (ReachesFrame(c, k) /\ sent[c][k].b = ping) =>
            /\ (/\ clients[c].rd = FrameEnd(c, k)
                /\ clients[c].pc = "body"
                /\ clients[c].total >= clients[c].n) => clients[c].msg = ping
            /\ Len(handled[c]) > Len(HandlersOf(SubSeq(sent[c], 1, k - 1))) =>
                  clients[c].rd > FrameEnd(c, k)
            /\ (clients[c].rd = FrameEnd(c, k) /\ clients[c].pc # "body") =>
                  clients[c].pc # "closed" /\ Disconnects(c) = 0

\* ------------------------------------------------ queue: the later claims
\* processQueue p stopped in the slice expression reqs[i+1:] of its removal
SlicePanicked(p) == p.kind = "drain" /\ p.pc = "panicked" /\ p.mu = "locked"

\* C16: a processQueue that runs alone over a queue of two or more entries,
\* all of them stored before the one SetConn call that started it, hands off
\* only entries of that queue, in queue order and without leaving one out,
\* never the zero-value request, and its removal never slices the queue
\* outside its bounds.
C16_DrainHandsOffQueuedEntries ==
    \A p \in BagToSet(procs) :
        (/\ p.kind = "drain" /\ BagCardinality(procs) = 1
         /\ p.q0 = assoc[p.u].q /\ Len(p.q0) >= 2
         /\ calls = nreq + 1) =>
            /\ \A k \in DOMAIN p.out : p.out[k].r # Blank
            /\ IsPrefix(ReqsOf(p.out), p.q0)
            /\ ~SlicePanicked(p)

\* processQueue p found a connection for its user but no mutex: the type
\* assertion on the nil that q.mutexes.Get returned panicked
MissingLockPanicked(p) == p.kind = "drain" /\ p.pc = "panicked" /\ p.mu = "none"

\* C17: a processQueue that has found a connection ID for its user finds the
\* user's mutex as well, whatever SetConn and RemoveConn calls run beside it.
C17_DrainFindsLock ==
    \A p \in BagToSet(procs) : ~MissingLockPanicked(p)

\* C18: each request processQueue hands off for a user goes to the connection
\* ID the conns map holds for that user when the hand-off is made.
C18_HandOffToCurrentConn ==
    [][\A d \in delivered' \ delivered : conns[d[1]] = d[2]]_vars

\* ------------------------------------------------ listener: the later claims
\* make([]byte, n) ran with a negative n: the runtime panicked in handleClient
NegativeAllocation(c) == clients[c].pc = "panicked"

\* C19: a frame whose header line parses to a negative integer, written after
\* valid frames that keep the connection open, is treated as an invalid header:
\* no buffer of negative size is allocated, the process keeps running, no
\* handler is started for the frame and nothing after its header line is read.
C19_NegativeLengthRejected ==
    \A c \in Clients : \A k \in DOMAIN sent[c] :
        (/\ ~Atoi(sent[c][k].h).err /\ Atoi(sent[c][k].h).n < 0
         /\ \A j \in 1..(k - 1) : IsValidFrame(sent[c][j]) /\ sent[c][j].b # closed) =>
            /\ ~NegativeAllocation(c)
            /\ clients[c].rd >= HeaderEnd(c, k) => Running
            /\ Len(handled[c]) <= k - 1
            /\ clients[c].rd <= HeaderEnd(c, k)

\* ---------------------------------------------------- server: the claims
\* call p is between its s.errMutex.Lock() and its s.errMutex.Unlock()
HoldsErrMutex(p) ==
    \/ p.op = "start" /\ p.pc \in {"store", "unlock"}
    \/ p.op = "stop" /\ p.pc \in {"test", "unlock"}

\* C20: whenever s.errMutex is locked, a Start or Stop call in flight holds it
\* and is on its way to unlock it: no call returns leaving the mutex locked,
\* so no later Start or Stop waits for it forever.
C20_StopReleasesErrMutex ==
    errMutex = "locked" => \E p \in BagToSet(scalls) : HoldsErrMutex(p)

====
